---- MODULE Spec2Model ----
(***************************************************************************)
(* Model of the x-fileserver upload pipeline: handlerUploadVideo and the   *)
(* handlers that share the metadata store with it (thumbnail upload,       *)
(* delete, create).  Strings are sequences of tokens, so that formatting   *)
(* ("bucket,key"), splitting (strings.SplitN) and filepath.Ext are         *)
(* computed, not assumed.                                                  *)
(***************************************************************************)
EXTENDS Integers, Sequences, FiniteSets, TLC

\* ------------------------------------------------------------------ bounds
\* number of HTTP requests (upload / thumbnail / delete) in one behaviour
MaxReq == 2
\* number of video records handlerVideosCreate may create
MaxVideos == 1
\* number of distinct names os.CreateTemp can draw
MaxTemp == 2
\* number of distinct values rand.Read can produce
MaxRand == 1
\* largest width and height the prober reports to the classification
MaxDim == 40
\* fractional bits kept by the model of float64 division
FracBits == 20

Req == 1..MaxReq
VideoIDs == 1..MaxVideos
TempNames == 1..MaxTemp
RandomNames == 1..MaxRand
Users == {"alice", "bob"}

\* ------------------------------------------------------- strings as tokens
Nil == << >>
Comma == ","

RECURSIVE IndexOf(_, _, _)
\* strings.Index: position of the first token t in s at or after i, 0 if none
IndexOf(s, t, i) ==
    IF i > Len(s) THEN 0
    ELSE IF s[i] = t THEN i
    ELSE IndexOf(s, t, i + 1)

RECURSIVE LastIndexOf(_, _, _)
\* position of the last token t in s at or before i, 0 if none
LastIndexOf(s, t, i) ==
    IF i < 1 THEN 0
    ELSE IF s[i] = t THEN i
    ELSE LastIndexOf(s, t, i - 1)

SplitAtLast(s) ==
    LET i == LastIndexOf(s, Comma, Len(s)) IN
    IF i = 0 THEN << s >>
    ELSE << SubSeq(s, 1, i - 1), SubSeq(s, i + 1, Len(s)) >>

\* strings.SplitN(s, ",", 2): at most two parts, cut at the first separator
SplitN2(s) ==
    LET i == IndexOf(s, Comma, 1) IN
    IF i = 0 THEN << s >>
    ELSE << SubSeq(s, 1, i - 1), SubSeq(s, i + 1, Len(s)) >>

\* filepath.Ext: the suffix beginning at the final dot of the final path
\* element; empty if there is no dot
Ext(name) ==
    LET d == LastIndexOf(name, ".", Len(name))
        sl == LastIndexOf(name, "/", Len(name))
    IN IF d = 0 \/ d < sl THEN Nil ELSE SubSeq(name, d, Len(name))

\* ------------------------------------------------------------ media types
\* strings.ToLower on the type tokens the model draws
ToLower(t) ==
    CASE t = "Video/MP4" -> "video/mp4"
      [] t = "IMAGE/PNG" -> "image/png"
      [] OTHER -> t

\* a media parameter is valid when it has the form attribute=value
ValidParam(p) == p \in {"codecs=avc1", "charset=utf-8"}

\* mime.ParseMediaType: the text before the first ";" lower-cased, the
\* parameters after it parsed; an empty type is an error, and a malformed
\* parameter is an error returned along with the media type
ParseMediaType(h) ==
    IF h = Nil \/ h[1] = ";" THEN [err |-> TRUE, mediaType |-> ""]
    ELSE IF Len(h) = 1 THEN [err |-> FALSE, mediaType |-> ToLower(h[1])]
    ELSE IF Len(h) = 3 /\ h[2] = ";" /\ ValidParam(h[3])
         THEN [err |-> FALSE, mediaType |-> ToLower(h[1])]
    ELSE [err |-> TRUE, mediaType |-> ToLower(h[1])]

\* Content-Type header values a client may declare
Headers ==
    { Nil,
      << "video/mp4" >>,
      << "Video/MP4" >>,
      << "video/mp4", ";", "codecs=avc1" >>,
      << "video/mp4", ";", "junk" >>,
      << "image/png" >>,
      << "video/mpeg" >> }

\* --------------------------------------------------------- classification
RECURSIVE Pow2(_)
Pow2(n) == IF n = 0 THEN 1 ELSE 2 * Pow2(n - 1)

\* float64(a) / float64(b), b > 0: the quotient rounded to the nearest
\* representable value (here: the nearest multiple of 2^-FracBits)
FloatDiv(a, b) == (2 * a * Pow2(FracBits) + b) \div (2 * b)

\* the float64 literals 1.7, 1.8, 0.55, 0.6: the nearest representable values
Lit17 == FloatDiv(17, 10)
Lit18 == FloatDiv(18, 10)
Lit055 == FloatDiv(55, 100)
Lit06 == FloatDiv(6, 10)

\* what ffprobe can report for a file
ProbeExecFail == [kind |-> "execfail"]
ProbeBadJSON == [kind |-> "badjson"]
ProbeNoStreams == [kind |-> "nostreams"]
ProbeDims(w, h) == [kind |-> "dims", width |-> w, height |-> h]

AspectOfRatioClosed(ratio) ==
    IF ratio >= Lit17 /\ ratio <= Lit18 THEN "16:9"
    ELSE IF ratio >= Lit055 /\ ratio <= Lit06 THEN "9:16"
    ELSE "other"

\* the ratio comparison of getVideoAspectRatio
AspectOfRatio(ratio) ==
    IF ratio > Lit17 /\ ratio < Lit18 THEN "16:9"
    ELSE IF ratio > Lit055 /\ ratio < Lit06 THEN "9:16"
    ELSE "other"

\* getVideoAspectRatio: [err, aspect]
getVideoAspectRatio(p) ==
    IF p.kind \in {"execfail", "badjson"} THEN [err |-> TRUE, aspect |-> ""]
    ELSE IF p.kind = "nostreams" THEN [err |-> FALSE, aspect |-> "other"]
    ELSE IF p.width = 0 \/ p.height = 0 THEN [err |-> FALSE, aspect |-> "other"]
    ELSE [err |-> FALSE, aspect |-> AspectOfRatio(FloatDiv(p.width, p.height))]

\* the caller's handling of the prober: an error degrades to "other", then
\* the switch on the aspect selects the key prefix
PrefixOf(p) ==
    LET res == getVideoAspectRatio(p)
        aspect == IF res.err THEN "other" ELSE res.aspect
    IN CASE aspect = "16:9" -> "landscape/"
         [] aspect = "9:16" -> "portrait/"
         [] OTHER -> "other/"

\* ---------------------------------------------------------- configuration
\* cfg.s3Bucket and cfg.s3CfDistribution
Bucket == << "tubely-bucket" >>
CfDistribution == << "d111.cloudfront.net" >>

\* ------------------------------------------------------------------ state
VARIABLES
    variant,    \* revision deployed: "signed" (bucket,key) or "static" (CloudFront URL)
    db,         \* metadata store: video id -> record
    nextID,     \* number of records created so far
    s3,         \* durable store: objects whose PutObject completed
    fs,         \* temporary directory: path -> content
    assets,     \* assets directory: names of the files created there
    pc,         \* position of each request's handler
    loc,        \* local variables of each request's handler
    hist,       \* what each request did (response and effects)
    cin,        \* classification on its own: the prober's report
    cout,       \* classification on its own: the prefix chosen
    rin,        \* resolution on its own: the bucket, the key and the stored string
    rout        \* resolution on its own: what dbVideoToSignedVideo returned

vars == << variant, db, nextID, s3, fs, assets, pc, loc, hist, cin, cout, rin, rout >>

\* ------------------------------------------------------------- file system
NoFile == [kind |-> "absent", src |-> 0]
File(k, r) == [kind |-> k, src |-> r]

StagedPath(n) == << "tubely-upload-", ToString(n), ".mp4" >>
FastStartPath(p) == p \o << ".faststart.mp4" >>
ReencodePath(p) == p \o << ".reencode.mp4" >>
Paths ==
    { StagedPath(n) : n \in TempNames }
    \cup { FastStartPath(StagedPath(n)) : n \in TempNames }
    \cup { ReencodePath(StagedPath(n)) : n \in TempNames }

\* -------------------------------------------------------- metadata store
NoVideo == [id |-> 0]

\* database.CreateVideo: a new record with no thumbnail and no video
CreateVideo(d, id, user, title, description) ==
    [d EXCEPT ![id] = [id |-> id, owner |-> user, title |-> title,
                       description |-> description, thumb |-> Nil, url |-> Nil]]

\* database.GetVideo
GetVideo(d, id) ==
    IF d[id] = NoVideo THEN [err |-> TRUE, video |-> NoVideo]
    ELSE [err |-> FALSE, video |-> d[id]]

\* database.UpdateVideo: writes the title, description, thumbnail reference
\* and video reference of the given record into the row with its id
UpdateVideo(d, video) ==
    IF d[video.id] = NoVideo THEN d
    ELSE [d EXCEPT ![video.id] =
            [@ EXCEPT !.title = video.title, !.description = video.description,
                      !.thumb = video.thumb, !.url = video.url]]

\* database.GetVideos: the records of a user, in the order of their ids
GetVideos(d, user) ==
    SelectSeq([i \in 1..MaxVideos |-> d[i]],
              LAMBDA v : IF v = NoVideo THEN FALSE ELSE v.owner = user)

\* database.DeleteVideo
DeleteVideo(d, id) == [d EXCEPT ![id] = NoVideo]

\* ---------------------------------------------------------- durable store
Object(bucket, key, body, ctype) ==
    [bucket |-> bucket, key |-> key, body |-> body, contentType |-> ctype]

\* s3.PutObject on success: the object replaces any object under the same key
PutObject(store, o) ==
    { x \in store : ~(x.bucket = o.bucket /\ x.key = o.key) } \cup { o }

\* generatePresignedURL on success
generatePresignedURL(bucket, key) ==
    << "https://" >> \o bucket \o << "/" >> \o key \o << "?X-Amz-Signature" >>

\* dbVideoToSignedVideo: presignOK is the outcome of the signing call
dbVideoToSignedVideo(video, presignOK) ==
    IF video.url = Nil THEN [err |-> FALSE, video |-> video]
    ELSE LET parts == SplitN2(video.url) IN
         IF Len(parts) # 2 THEN [err |-> TRUE, video |-> video]
         ELSE IF ~presignOK THEN [err |-> TRUE, video |-> video]
         ELSE [err |-> FALSE,
               video |-> [video EXCEPT !.url = generatePresignedURL(parts[1], parts[2])]]

StoredRefNoPrefix(v, key) ==
    IF v = "signed" THEN Bucket \o << Comma >> \o Tail(key)
    ELSE << "https://" >> \o CfDistribution \o << "/" >> \o Tail(key)

StoredRefSigned(v, key) == generatePresignedURL(Bucket, key)

\* the reference handlerUploadVideo stores: "bucket,key", or the CloudFront
\* URL in the static revision
StoredRef(v, key) ==
    IF v = "signed" THEN Bucket \o << Comma >> \o key
    ELSE << "https://" >> \o CfDistribution \o << "/" >> \o key

\* fmt.Sprintf("%s,%s", bucket, key)
StoredString(bucket, key) == bucket \o << Comma >> \o key

\* prefix + randomName + filepath.Ext(header.Filename)
KeyOf(prefix, n, name) == << prefix, ToString(n) >> \o Ext(name)

\* --------------------------------------------------------------- requests
RefNone == [kind |-> "none"]

LocInit ==
    [kind |-> "none", caller |-> "", vid |-> 0, contentType |-> Nil,
     video |-> NoVideo, mediaType |-> "", temp |-> 0, remux |-> "none",
     reenc |-> "none", processed |-> Nil, body |-> NoFile, probe |-> "none",
     prefix |-> "", key |-> Nil, puts |-> 0, updates |-> 0, committed |-> FALSE,
     resp |-> << >>, probed |-> Nil]

HistInit == [exit |-> "", committed |-> FALSE, resp |-> << >>]

DB0 == [v \in VideoIDs |-> NoVideo]
FS0 == [p \in Paths |-> NoFile]

Init ==
    /\ variant \in {"signed", "static"}
    /\ db = DB0
    /\ nextID = 0
    /\ s3 = {}
    /\ fs = FS0
    /\ assets = {}
    /\ pc = [r \in Req |-> "idle"]
    /\ loc = [r \in Req |-> LocInit]
    /\ hist = [r \in Req |-> HistInit]
    /\ cin = ProbeNoStreams
    /\ cout = "none"
    /\ rin = RefNone
    /\ rout = RefNone

\* requests are numbered in the order they arrive
Arrives(r) == pc[r] = "idle" /\ (IF r = 1 THEN TRUE ELSE pc[r - 1] # "idle")

DeferredProcessedOnly(l) == IF l.processed = Nil THEN {} ELSE { l.processed }

\* the deferred os.Remove calls registered so far by an upload run
Deferred(l) ==
    (IF l.temp = 0 THEN {} ELSE { StagedPath(l.temp) })
    \cup (IF l.processed = Nil THEN {} ELSE { l.processed })

\* the handler returns: its deferred calls remove what they name
RunDeferred(f, l) == [p \in Paths |-> IF p \in Deferred(l) THEN NoFile ELSE f[p]]

\* what remains of a request once its handler has returned
Ended(l) == [LocInit EXCEPT !.kind = l.kind, !.caller = l.caller, !.vid = l.vid,
                            !.contentType = l.contentType]

\* respondWithError / respondWithJSON followed by return, with the file
\* system f the step leaves and the locals l it leaves
Return(r, exit, f, l) ==
    /\ pc' = [pc EXCEPT ![r] = "done"]
    /\ hist' = [hist EXCEPT ![r] = [exit |-> exit, committed |-> l.committed,
                                       resp |-> l.resp]]
    /\ fs' = RunDeferred(f, l)
    /\ loc' = [loc EXCEPT ![r] = Ended(l)]

Goto(r, next, l) ==
    /\ pc' = [pc EXCEPT ![r] = next]
    /\ loc' = [loc EXCEPT ![r] = l]
    /\ hist' = hist

\* --------------------------------------------------- handlerVideosCreate
handlerVideosCreate ==
    /\ nextID < MaxVideos
    /\ \E user \in Users :
         /\ db' = CreateVideo(db, nextID + 1, user, "title", "description")
         /\ nextID' = nextID + 1
    /\ UNCHANGED << variant, s3, fs, assets, pc, loc, hist, cin, cout, rin, rout >>

\* ----------------------------------------------------- handlerUploadVideo
NoToken == "none"

NotOwnerNever(video, userID) == FALSE

\* the ownership check: video.UserID != userID
NotOwner(video, userID) == video.owner # userID

MediaTypeVerdictAnyParsed(h) ==
    IF ParseMediaType(h).err THEN "400 Invalid Content-Type" ELSE "ok"

\* the validation of the declared Content-Type
MediaTypeVerdict(h) ==
    LET mt == ParseMediaType(h) IN
    IF mt.err THEN "400 Invalid Content-Type"
    ELSE IF mt.mediaType # "video/mp4" THEN "400 Unsupported video type"
    ELSE "ok"
Others == << variant, db, nextID, s3, assets, cin, cout, rin, rout >>

\* uuid.Parse, auth, GetVideo, the ownership check, the form and the media
\* type: every check before the temporary file
UploadBegin(r) ==
    /\ Arrives(r)
    /\ \E idOK \in BOOLEAN, tok \in Users \cup {NoToken}, id \in VideoIDs,
          formOK \in BOOLEAN, fileOK \in BOOLEAN, h \in Headers :
         LET l0 == [LocInit EXCEPT !.kind = "upload"]
             l1 == [l0 EXCEPT !.caller = tok, !.vid = id]
             got == GetVideo(db, id)
             l2 == [l1 EXCEPT !.contentType = h]
             mt == ParseMediaType(h)
         IN IF ~idOK THEN
                /\ tok = NoToken /\ id = 1 /\ formOK /\ fileOK /\ h = Nil
                /\ Return(r, "400 Invalid video ID", fs, l0)
            ELSE IF tok = NoToken THEN
                /\ id = 1 /\ formOK /\ fileOK /\ h = Nil
                /\ Return(r, "401 Couldn't validate JWT", fs, l0)
            ELSE IF got.err THEN
                /\ formOK /\ fileOK /\ h = Nil
                /\ Return(r, "404 Video not found", fs, l1)
            ELSE IF NotOwner(got.video, tok) THEN
                /\ formOK /\ fileOK /\ h = Nil
                /\ Return(r, "401 Not the owner of this video", fs, l1)
            ELSE IF ~formOK THEN
                /\ fileOK /\ h = Nil
                /\ Return(r, "400 Failed to parse form", fs, l1)
            ELSE IF ~fileOK THEN
                /\ h = Nil
                /\ Return(r, "400 Missing video file", fs, l1)
            ELSE IF MediaTypeVerdict(h) # "ok" THEN
                Return(r, MediaTypeVerdict(h), fs, l2)
            ELSE
                /\ Goto(r, "createtemp",
                        [l2 EXCEPT !.video = got.video, !.mediaType = mt.mediaType])
                /\ fs' = fs
    /\ UNCHANGED Others

TempFreeAlways(f, n) == TRUE

\* os.CreateTemp opens with O_EXCL and tries another name when the file
\* exists: the name it returns named no file
TempFree(f, n) == f[StagedPath(n)] = NoFile

\* os.CreateTemp and the deferred os.Remove of its name
CreateTemp(r) ==
    /\ pc[r] = "createtemp"
    /\ \E ok \in BOOLEAN :
         IF ~ok THEN Return(r, "500 Failed to create temp file", fs, loc[r])
         ELSE \E n \in TempNames :
                /\ TempFree(fs, n)
                /\ fs' = [fs EXCEPT ![StagedPath(n)] = File("empty", r)]
                /\ Goto(r, "copy", [loc[r] EXCEPT !.temp = n, !.contentType = Nil])
    /\ UNCHANGED Others

\* io.Copy of the upload into the temporary file
CopyUpload(r) ==
    /\ pc[r] = "copy"
    /\ LET p == StagedPath(loc[r].temp) IN
       \E ok \in BOOLEAN :
         IF ~ok THEN Return(r, "500 Failed to save temp file",
                            [fs EXCEPT ![p] = File("partial", r)], loc[r])
         ELSE /\ fs' = [fs EXCEPT ![p] = File("raw", r)]
              /\ Goto(r, "remux", loc[r])
    /\ UNCHANGED Others

\* how a run of ffmpeg (started without -y) can end for an output path:
\* it refuses to overwrite an existing file; otherwise it succeeds, or fails
\* before or after creating its output
FfmpegOutcomes(f, out) ==
    IF f[out] # NoFile THEN {"exists"} ELSE {"ok", "fail", "failpartial"}

\* the file system after a run of ffmpeg by request r
FfmpegWrites(f, out, outcome, kind, r) ==
    CASE outcome = "ok" -> [f EXCEPT ![out] = File(kind, r)]
      [] outcome = "failpartial" -> [f EXCEPT ![out] = File("partial", r)]
      [] OTHER -> f

\* processVideoForFastStart, first attempt: remux
Remux(r) ==
    /\ pc[r] = "remux"
    /\ LET out == FastStartPath(StagedPath(loc[r].temp)) IN
       \E o \in FfmpegOutcomes(fs, out) :
         /\ fs' = FfmpegWrites(fs, out, o, "remux", r)
         /\ IF o = "ok"
            THEN Goto(r, "open", [loc[r] EXCEPT !.remux = "ok", !.processed = out])
            ELSE Goto(r, "reencode", [loc[r] EXCEPT !.remux = "failed"])
    /\ UNCHANGED Others

\* processVideoForFastStart, fallback: re-encode
Reencode(r) ==
    /\ pc[r] = "reencode"
    /\ LET out == ReencodePath(StagedPath(loc[r].temp)) IN
       \E o \in FfmpegOutcomes(fs, out) :
         IF o = "ok"
         THEN /\ fs' = FfmpegWrites(fs, out, o, "reencode", r)
              /\ Goto(r, "open", [loc[r] EXCEPT !.reenc = "ok", !.processed = out])
         ELSE Return(r, "500 Failed to process video for fast start",
                     FfmpegWrites(fs, out, o, "reencode", r),
                     [loc[r] EXCEPT !.reenc = "failed"])
    /\ UNCHANGED Others

StagedBody(f, l) == f[StagedPath(l.temp)]

\* the file os.Open(processedPath) yields, later the body of PutObject
ProcessedBody(f, l) == f[l.processed]

\* os.Open of the processed file
OpenProcessed(r) ==
    /\ pc[r] = "open"
    /\ \E ok \in BOOLEAN :
         IF ~ok THEN Return(r, "500 Failed to open processed file", fs, loc[r])
         ELSE /\ Goto(r, "probe", [loc[r] EXCEPT !.body = ProcessedBody(fs, loc[r])])
              /\ fs' = fs
    /\ UNCHANGED Others

\* the prober's reports drawn for an upload run
ProbeReports ==
    { ProbeExecFail, ProbeBadJSON, ProbeNoStreams,
      ProbeDims(0, 9), ProbeDims(16, 9), ProbeDims(9, 16), ProbeDims(4, 3) }

\* how a report is remembered by the run
ProbeClass(p) ==
    IF p.kind \in {"execfail", "badjson"} THEN "failed"
    ELSE IF p.kind = "nostreams" THEN "indeterminate"
    ELSE IF p.width = 0 \/ p.height = 0 THEN "indeterminate"
    ELSE "dims"

ProbeVerdictStrict(p) ==
    IF getVideoAspectRatio(p).err THEN "500 Failed to probe video" ELSE "ok"

\* what the handler does with the prober's error: it sets aspect = "other"
\* and goes on, whatever the error
ProbeVerdict(p) == "ok"

ProbedPathStaged(l) == StagedPath(l.temp)

\* the path handed to getVideoAspectRatio: processedPath
ProbedPath(l) == l.processed

\* getVideoAspectRatio(processedPath) and the prefix switch
Probe(r) ==
    /\ pc[r] = "probe"
    /\ \E p \in ProbeReports :
         LET l == [loc[r] EXCEPT !.probe = ProbeClass(p), !.probed = ProbedPath(loc[r])] IN
         IF ProbeVerdict(p) # "ok"
         THEN Return(r, ProbeVerdict(p), fs, l)
         ELSE /\ Goto(r, "keygen", [l EXCEPT !.prefix = PrefixOf(p)])
              /\ fs' = fs
    /\ UNCHANGED Others

\* file names a client may give the upload
FileNames ==
    { << "clip", ".", "mp4" >>, << "clip", ".", "a", Comma, "b" >> }

\* rand.Read, base64 and the key
GenerateKey(r) ==
    /\ pc[r] = "keygen"
    /\ \E ok \in BOOLEAN :
         IF ~ok THEN Return(r, "500 Failed to generate random key", fs, loc[r])
         ELSE \E n \in RandomNames, name \in FileNames :
                /\ Goto(r, "put",
                        [loc[r] EXCEPT !.key = KeyOf(loc[r].prefix, n, name)])
                /\ fs' = fs
    /\ UNCHANGED Others

PutFailedIgnored(ok) == FALSE

\* the test of PutObject's error: err != nil
PutFailed(ok) == ~ok

\* s3Client.PutObject with the processed file as body
Put(r) ==
    /\ pc[r] = "put"
    /\ \E ok \in BOOLEAN :
         IF PutFailed(ok)
         THEN /\ Return(r, "500 Failed to upload video to S3", fs,
                        [loc[r] EXCEPT !.puts = @ + 1])
              /\ s3' = s3
         ELSE /\ s3' = IF ok
                       THEN PutObject(s3, Object(Bucket, loc[r].key, loc[r].body,
                                                 loc[r].mediaType))
                       ELSE s3
              /\ Goto(r, "update", [loc[r] EXCEPT !.puts = @ + 1])
              /\ fs' = fs
    /\ UNCHANGED << variant, db, nextID, assets, cin, cout, rin, rout >>

UpdateFailedIgnored(ok) == FALSE

\* the test of UpdateVideo's error: err != nil
UpdateFailed(ok) == ~ok

\* video.VideoURL = &stored; cfg.db.UpdateVideo(video); the static revision
\* then responds with the record
UpdateRecord(r) ==
    /\ pc[r] = "update"
    /\ LET video == [loc[r].video EXCEPT !.url = StoredRef(variant, loc[r].key)]
           l == [loc[r] EXCEPT !.video = video, !.updates = @ + 1, !.probe = "none"]
       IN \E ok \in BOOLEAN :
            IF UpdateFailed(ok)
            THEN /\ Return(r, "500 Failed to update video record", fs, l)
                 /\ db' = db
            ELSE /\ db' = IF ok THEN UpdateVideo(db, video) ELSE db
                 /\ LET lc == [l EXCEPT !.committed = (db[video.id] # NoVideo)] IN
                    IF variant = "static"
                    THEN Return(r, "200 OK", fs, [lc EXCEPT !.resp = << video.url >>])
                    ELSE /\ Goto(r, "resolve", lc)
                         /\ fs' = fs
    /\ UNCHANGED << variant, nextID, s3, assets, cin, cout, rin, rout >>

\* dbVideoToSignedVideo(video) and the response
Resolve(r) ==
    /\ pc[r] = "resolve"
    /\ \E presignOK \in BOOLEAN :
         LET res == dbVideoToSignedVideo(loc[r].video, presignOK) IN
         IF res.err THEN Return(r, "500 Failed to generate presigned URL", fs, loc[r])
         ELSE Return(r, "200 OK", fs, [loc[r] EXCEPT !.resp = << res.video.url >>])
    /\ UNCHANGED Others

handlerUploadVideo(r) ==
    \/ UploadBegin(r)
    \/ CreateTemp(r)
    \/ CopyUpload(r)
    \/ Remux(r)
    \/ Reencode(r)
    \/ OpenProcessed(r)
    \/ Probe(r)
    \/ GenerateKey(r)
    \/ Put(r)
    \/ UpdateRecord(r)
    \/ Resolve(r)

\* --------------------------------------------------- handlerUploadThumbnail
ThumbHeaders == { Nil, << "image/png" >>, << "image/jpeg" >>, << "video/mp4" >> }

\* the extension chosen by the switch on the media type
ThumbExt(mediaType) == IF mediaType = "image/png" THEN ".png" ELSE ".jpg"

\* uuid.Parse, auth, the form, GetVideo, the ownership check, the media type
\* and the random file name
ThumbBegin(r) ==
    /\ Arrives(r)
    /\ \E reqOK \in BOOLEAN, tok \in Users, id \in VideoIDs, h \in ThumbHeaders,
          randOK \in BOOLEAN, n \in RandomNames :
         LET l0 == [LocInit EXCEPT !.kind = "thumbnail"]
             l1 == [l0 EXCEPT !.caller = tok, !.vid = id]
             got == GetVideo(db, id)
             l2 == [l1 EXCEPT !.contentType = h]
             mt == ParseMediaType(h)
         IN IF ~reqOK THEN
                /\ tok = "alice" /\ id = 1 /\ h = Nil /\ randOK /\ n = 1
                /\ Return(r, "400 or 401 before the lookup", fs, l0)
            ELSE IF got.err THEN
                /\ h = Nil /\ randOK /\ n = 1
                /\ Return(r, "404 Video not found", fs, l1)
            ELSE IF NotOwner(got.video, tok) THEN
                /\ h = Nil /\ randOK /\ n = 1
                /\ Return(r, "401 Not the owner of this video", fs, l1)
            ELSE IF mt.err THEN
                /\ randOK /\ n = 1
                /\ Return(r, "400 Invalid Content-Type", fs, l2)
            ELSE IF mt.mediaType \notin {"image/png", "image/jpeg"} THEN
                /\ randOK /\ n = 1
                /\ Return(r, "400 Unsupported thumbnail type", fs, l2)
            ELSE IF ~randOK THEN
                /\ n = 1
                /\ Return(r, "500 Failed to generate random filename", fs, l2)
            ELSE
                /\ Goto(r, "thumbsave",
                        [l1 EXCEPT !.video = got.video, !.mediaType = mt.mediaType,
                                   !.key = << ToString(n), ThumbExt(mt.mediaType) >>])
                /\ fs' = fs
    /\ UNCHANGED Others

\* os.Create in the assets directory and io.Copy
ThumbSave(r) ==
    /\ pc[r] = "thumbsave"
    /\ \E created \in BOOLEAN, copied \in BOOLEAN :
         IF ~created THEN
            /\ copied
            /\ Return(r, "500 Failed to create file", fs, loc[r])
            /\ assets' = assets
         ELSE IF ~copied THEN
            /\ Return(r, "500 Failed to save file", fs, loc[r])
            /\ assets' = assets \cup { loc[r].key }
         ELSE
            /\ Goto(r, "thumbupdate", loc[r])
            /\ assets' = assets \cup { loc[r].key }
            /\ fs' = fs
    /\ UNCHANGED << variant, db, nextID, s3, cin, cout, rin, rout >>

\* video.ThumbnailURL = &url; cfg.db.UpdateVideo(video)
ThumbUpdate(r) ==
    /\ pc[r] = "thumbupdate"
    /\ LET url == << "http://localhost:", "8091", "/assets/" >> \o loc[r].key
           video == [loc[r].video EXCEPT !.thumb = url]
           l == [loc[r] EXCEPT !.video = video, !.updates = @ + 1]
       IN \E ok \in BOOLEAN :
            IF ~ok
            THEN /\ Return(r, "500 Failed to update video", fs, l)
                 /\ db' = db
            ELSE /\ db' = UpdateVideo(db, video)
                 /\ Return(r, "200 OK", fs,
                           [l EXCEPT !.committed = (db[video.id] # NoVideo),
                                     !.resp = << video.url >>])
    /\ UNCHANGED << variant, nextID, s3, assets, cin, cout, rin, rout >>

handlerUploadThumbnail(r) ==
    \/ ThumbBegin(r)
    \/ ThumbSave(r)
    \/ ThumbUpdate(r)

\* ------------------------------------------------------ handlerVideoDelete
\* auth, uuid.Parse, GetVideo and the ownership check
DeleteBegin(r) ==
    /\ Arrives(r)
    /\ \E reqOK \in BOOLEAN, tok \in Users, id \in VideoIDs :
         LET l0 == [LocInit EXCEPT !.kind = "delete"]
             l1 == [l0 EXCEPT !.caller = tok, !.vid = id]
             got == GetVideo(db, id)
         IN IF ~reqOK THEN
                /\ tok = "alice" /\ id = 1
                /\ Return(r, "400 or 401 before the lookup", fs, l0)
            ELSE IF got.err THEN Return(r, "404 Video not found", fs, l1)
            ELSE IF NotOwner(got.video, tok)
                 THEN Return(r, "401 Not the owner of this video", fs, l1)
            ELSE /\ Goto(r, "delete", [l1 EXCEPT !.video = got.video])
                 /\ fs' = fs
    /\ UNCHANGED Others

\* cfg.db.DeleteVideo(videoID)
DeleteRecord(r) ==
    /\ pc[r] = "delete"
    /\ \E ok \in BOOLEAN :
         IF ~ok
         THEN /\ Return(r, "500 Failed to delete video", fs, loc[r])
              /\ db' = db
         ELSE /\ db' = DeleteVideo(db, loc[r].vid)
              /\ Return(r, "200 deleted", fs, loc[r])
    /\ UNCHANGED << variant, nextID, s3, assets, cin, cout, rin, rout >>

handlerVideoDelete(r) ==
    \/ DeleteBegin(r)
    \/ DeleteRecord(r)

\* --------------------------------------------------------- handlerVideoGet
\* uuid.Parse, GetVideo, in the signed revision dbVideoToSignedVideo, and
\* the response
handlerVideoGet(r) ==
    /\ Arrives(r)
    /\ \E idOK \in BOOLEAN, id \in VideoIDs, presignOK \in BOOLEAN :
         LET l0 == [LocInit EXCEPT !.kind = "get"]
             l1 == [l0 EXCEPT !.vid = id]
             got == GetVideo(db, id)
             res == dbVideoToSignedVideo(got.video, presignOK)
         IN IF ~idOK THEN
                /\ id = 1 /\ presignOK
                /\ Return(r, "400 Invalid video ID", fs, l0)
            ELSE IF got.err THEN
                /\ presignOK
                /\ Return(r, "404 Video not found", fs, l1)
            ELSE IF variant = "static" THEN
                /\ presignOK
                /\ Return(r, "200 OK", fs, [l1 EXCEPT !.resp = << got.video.url >>])
            ELSE IF res.err THEN Return(r, "500 Failed to sign video URL", fs, l1)
            ELSE Return(r, "200 OK", fs, [l1 EXCEPT !.resp = << res.video.url >>])
    /\ UNCHANGED Others

\* --------------------------------------------------- handlerVideosRetrieve
\* auth, GetVideos, in the signed revision dbVideoToSignedVideo of each
\* record, and the response
handlerVideosRetrieve(r) ==
    /\ Arrives(r)
    /\ \E tok \in Users \cup {NoToken}, getOK \in BOOLEAN,
          presignOK \in [VideoIDs -> BOOLEAN] :
         LET l0 == [LocInit EXCEPT !.kind = "list"]
             l1 == [l0 EXCEPT !.caller = tok]
             videos == GetVideos(db, tok)
             res == [i \in 1..Len(videos) |->
                        dbVideoToSignedVideo(videos[i], presignOK[videos[i].id])]
         IN IF tok = NoToken THEN
                /\ getOK /\ presignOK = [v \in VideoIDs |-> TRUE]
                /\ Return(r, "401 Couldn't validate JWT", fs, l0)
            ELSE IF ~getOK THEN
                /\ presignOK = [v \in VideoIDs |-> TRUE]
                /\ Return(r, "500 Failed to get videos", fs, l1)
            ELSE IF variant = "static" THEN
                /\ presignOK = [v \in VideoIDs |-> TRUE]
                /\ Return(r, "200 OK", fs,
                          [l1 EXCEPT !.resp = [i \in 1..Len(videos) |-> videos[i].url]])
            ELSE IF \E i \in 1..Len(videos) : res[i].err
                 THEN Return(r, "500 Failed to sign video URL", fs, l1)
            ELSE Return(r, "200 OK", fs,
                        [l1 EXCEPT !.resp = [i \in 1..Len(videos) |-> res[i].video.url]])
    /\ UNCHANGED Others

Next ==
    \/ handlerVideosCreate
    \/ \E r \in Req : handlerUploadVideo(r)
    \/ \E r \in Req : handlerUploadThumbnail(r)
    \/ \E r \in Req : handlerVideoDelete(r)
    \/ \E r \in Req : handlerVideoGet(r)
    \/ \E r \in Req : handlerVideosRetrieve(r)

Spec == Init /\ [][Next]_vars

\* ----------------------------------------------- resolution, on its own
\* bucket names without a comma
RefBuckets == { << "tubely-bucket" >>, << "my", "-", "bucket" >>, << "b" >> }

\* file names of an upload: with and without an extension, with commas in
\* the extension and before it
RefFileNames ==
    FileNames
    \cup { << "clip" >>, << "clip", ".", Comma, Comma >>, << "a", Comma, "b", ".", "mov" >> }

\* every key an upload run can produce from them
RefKeys ==
    { KeyOf(p, n, name) : p \in {"landscape/", "portrait/", "other/"},
                          n \in RandomNames, name \in RefFileNames }

\* stored strings that are empty or hold no comma
RefOther == { Nil, << "garbage" >>, << "https://", "d111.cloudfront.net", "/", "k" >> }

RefInputs ==
    { [kind |-> "ref", bucket |-> b, key |-> k, stored |-> StoredString(b, k),
       presignOK |-> ok] : b \in RefBuckets, k \in RefKeys, ok \in BOOLEAN }
    \cup { [kind |-> "other", bucket |-> Nil, key |-> Nil, stored |-> u,
            presignOK |-> ok] : u \in RefOther, ok \in BOOLEAN }

InitResolve ==
    /\ rin \in RefInputs
    /\ rout = RefNone
    /\ cin = ProbeNoStreams
    /\ cout = "none"
    /\ variant = "signed"
    /\ db = DB0
    /\ nextID = 0
    /\ s3 = {}
    /\ fs = FS0
    /\ assets = {}
    /\ pc = [r \in Req |-> "idle"]
    /\ loc = [r \in Req |-> LocInit]
    /\ hist = [r \in Req |-> HistInit]

\* dbVideoToSignedVideo applied to a record holding the stored string
ResolveStored ==
    /\ rout = RefNone
    /\ LET video == [id |-> 1, owner |-> "alice", title |-> "title",
                     description |-> "description", thumb |-> Nil, url |-> rin.stored]
           res == dbVideoToSignedVideo(video, rin.presignOK)
       IN rout' = [kind |-> "result", err |-> res.err, url |-> res.video.url,
                   rest |-> [res.video EXCEPT !.url = Nil] = [video EXCEPT !.url = Nil]]
    /\ UNCHANGED << variant, db, nextID, s3, fs, assets, pc, loc, hist, cin, cout, rin >>

SpecResolve == InitResolve /\ [][ResolveStored]_vars

\* ------------------------------------------- classification, on its own
\* every report the prober can make with dimensions up to MaxDim
ClassifyInputs ==
    { ProbeExecFail, ProbeBadJSON, ProbeNoStreams }
    \cup { ProbeDims(w, h) : w \in 0..MaxDim, h \in 0..MaxDim }

InitClassify ==
    /\ cin \in ClassifyInputs
    /\ cout = "none"
    /\ rin = RefNone
    /\ rout = RefNone
    /\ variant = "signed"
    /\ db = DB0
    /\ nextID = 0
    /\ s3 = {}
    /\ fs = FS0
    /\ assets = {}
    /\ pc = [r \in Req |-> "idle"]
    /\ loc = [r \in Req |-> LocInit]
    /\ hist = [r \in Req |-> HistInit]

\* the prober's report is classified and the key prefix selected
Classify ==
    /\ cout = "none"
    /\ cout' = PrefixOf(cin)
    /\ UNCHANGED << variant, db, nextID, s3, fs, assets, pc, loc, hist, cin, rin, rout >>

SpecClassify == InitClassify /\ [][Classify]_vars

\* ================================================================= claims
Ends(r) == pc[r] # "done" /\ pc'[r] = "done"
IsUpload(r) == loc[r].kind = "upload"
Failed(r) == pc[r] = "done" /\ hist[r].exit # "200 OK"

\* C1: an upload run that ends in failure, at whatever stage, has not
\* changed the video reference of the record in the metadata store.
C1_FailedRunLeavesReference ==
    \A r \in Req : (IsUpload(r) /\ Failed(r)) => ~hist[r].committed

\* C2: the video reference of every record is empty or names an object whose
\* PutObject has completed, whatever the number and interleaving of runs.
RefersTo(url, o) ==
    IF variant = "signed" THEN SplitN2(url) = << o.bucket, o.key >>
    ELSE url = << "https://" >> \o CfDistribution \o << "/" >> \o o.key

C2_ReferenceNamesUploadedObject ==
    \A v \in VideoIDs :
        (db[v] # NoVideo /\ db[v].url # Nil) => \E o \in s3 : RefersTo(db[v].url, o)

\* two upload runs have both written their reference into the same record
C2_Witness ==
    \E r1, r2 \in Req :
        /\ r1 # r2 /\ IsUpload(r1) /\ IsUpload(r2)
        /\ hist[r1].committed /\ hist[r2].committed
        /\ loc[r1].vid = loc[r2].vid
        /\ db[loc[r1].vid] # NoVideo /\ db[loc[r1].vid].url # Nil

\* C3: once an upload run has created its staged temporary file, the file
\* no longer exists when the run ends, on every exit path.
C3_StagedFileRemoved ==
    [][\A r \in Req :
         (IsUpload(r) /\ Ends(r) /\ loc[r].temp # 0)
            => fs'[StagedPath(loc[r].temp)] = NoFile]_vars

\* an upload run has ended in success and another after a failed upload,
\* and no staged file is left
C3_Witness ==
    /\ \E r \in Req : pc[r] = "done" /\ IsUpload(r) /\ hist[r].exit = "200 OK"
    /\ \E r \in Req : pc[r] = "done" /\ IsUpload(r)
                      /\ hist[r].exit = "500 Failed to upload video to S3"
    /\ \A n \in TempNames : fs[StagedPath(n)] = NoFile

\* C4: when an upload run ends, neither output of the normalizer
\* (<staged>.faststart.mp4, <staged>.reencode.mp4) remains on disk.
C4_NoNormalizerOutputRemains ==
    [][\A r \in Req :
         (IsUpload(r) /\ Ends(r) /\ loc[r].temp # 0)
            => /\ fs'[FastStartPath(StagedPath(loc[r].temp))] = NoFile
               /\ fs'[ReencodePath(StagedPath(loc[r].temp))] = NoFile]_vars

\* C5: the record update of an upload run leaves the owner, title,
\* description and thumbnail reference of the record as the store held them
\* immediately before the update.
C5_UpdateKeepsOtherFields ==
    [][\A r \in Req :
         (IsUpload(r) /\ pc[r] = "update" /\ pc'[r] # "update"
            /\ db[loc[r].vid] # NoVideo /\ db'[loc[r].vid] # NoVideo)
            => /\ db'[loc[r].vid].owner = db[loc[r].vid].owner
               /\ db'[loc[r].vid].title = db[loc[r].vid].title
               /\ db'[loc[r].vid].description = db[loc[r].vid].description
               /\ db'[loc[r].vid].thumb = db[loc[r].vid].thumb]_vars

\* the step that reads the declared Content-Type of an upload
ReadsHeader(r) == pc[r] = "idle" /\ pc'[r] # "idle" /\ loc'[r].kind = "upload"

\* the run is rejected in this very step and has touched nothing
RejectedAtOnce(r) ==
    /\ pc'[r] = "done" /\ hist'[r].exit # "200 OK"
    /\ loc'[r].temp = 0
    /\ fs' = fs /\ s3' = s3 /\ db' = db

\* a request that has ended never acts again
Terminal(r) == pc[r] = "done" => (pc'[r] = "done" /\ loc'[r] = loc[r])

\* C6 as stated: an upload whose declared media type is anything other than
\* exactly video/mp4 is rejected before staging, with no temporary file, no
\* normalizer or prober run, no object put and no record update.
C6_OnlyExactMp4Accepted ==
    [][\A r \in Req :
         /\ (ReadsHeader(r) /\ loc'[r].contentType # << "video/mp4" >>)
               => RejectedAtOnce(r)
         /\ Terminal(r)]_vars

\* the header values whose type is video/mp4 up to letter case, followed by
\* nothing or by well-formed parameters
ParsesToMp4 ==
    { << "video/mp4" >>, << "Video/MP4" >>, << "video/mp4", ";", "codecs=avc1" >> }

\* C6 as amended: an upload whose declared Content-Type does not parse to
\* the media type video/mp4 (letter case and parameters aside) is rejected
\* before staging, and has no effect.
C6_NonMp4RejectedBeforeStaging ==
    [][\A r \in Req :
         /\ (ReadsHeader(r) /\ loc'[r].contentType \notin ParsesToMp4)
               => RejectedAtOnce(r)
         /\ Terminal(r)]_vars

\* an upload declared image/png has been rejected, and the temporary
\* directory is empty
C6_Witness ==
    \E r \in Req :
        /\ pc[r] = "done" /\ IsUpload(r)
        /\ loc[r].contentType = << "image/png" >>
        /\ hist[r].exit = "400 Unsupported video type"
        /\ fs = FS0 /\ s3 = {}

\* C7: an upload run whose record does not exist or belongs to another
\* subject stages, normalizes, uploads and updates nothing; a record is
\* deleted, or given another video reference, only by a request of its owner.
C7_OnlyOwnerActs ==
    [][/\ \A r \in Req :
            /\ (ReadsHeader(r) /\ loc'[r].vid # 0
                  /\ (db[loc'[r].vid] = NoVideo
                        \/ db[loc'[r].vid].owner # loc'[r].caller))
                  => RejectedAtOnce(r)
            /\ Terminal(r)
       /\ \A v \in VideoIDs :
            /\ (db[v] # NoVideo /\ db'[v] = NoVideo)
                  => \E r \in Req :
                        /\ loc[r].kind = "delete" /\ pc[r] = "delete" /\ Ends(r)
                        /\ loc[r].vid = v /\ loc[r].caller = db[v].owner
            /\ (db[v] # NoVideo /\ db'[v] # NoVideo /\ db'[v].url # db[v].url)
                  => \E r \in Req :
                        /\ pc[r] \in {"update", "thumbupdate"} /\ pc'[r] # pc[r]
                        /\ loc[r].vid = v /\ loc[r].caller = db[v].owner]_vars

\* an upload and a delete by a subject who is not the owner have both been
\* refused, and the record is still there without a video
C7_Witness ==
    \E r1, r2 \in Req :
        /\ pc[r1] = "done" /\ loc[r1].kind = "upload"
        /\ pc[r2] = "done" /\ loc[r2].kind = "delete"
        /\ hist[r1].exit = "401 Not the owner of this video"
        /\ hist[r2].exit = "401 Not the owner of this video"
        /\ db[loc[r1].vid] # NoVideo /\ db[loc[r1].vid].owner # loc[r1].caller
        /\ db[loc[r2].vid] # NoVideo /\ db[loc[r2].vid].owner # loc[r2].caller
        /\ db[loc[r1].vid].url = Nil

\* C8: the re-encode is attempted if and only if the remux failed, each at
\* most once; the normalizer returns the remux output when the remux
\* succeeds, the re-encode output when only the re-encode succeeds, and an
\* error when both fail; the object put is the file at the returned path,
\* never the staged original.
C8_NormalizerOutcome ==
    [][\A r \in Req :
         LET staged == StagedPath(loc[r].temp) IN
         /\ (pc[r] = "remux" /\ pc'[r] # "remux")
               => /\ loc[r].remux = "none" /\ loc[r].reenc = "none"
                  /\ \/ /\ pc'[r] = "open" /\ loc'[r].remux = "ok"
                        /\ loc'[r].reenc = "none"
                        /\ loc'[r].processed = FastStartPath(staged)
                        /\ fs'[FastStartPath(staged)] = File("remux", r)
                     \/ /\ pc'[r] = "reencode" /\ loc'[r].remux = "failed"
                        /\ loc'[r].processed = Nil
         /\ (pc[r] = "reencode" /\ pc'[r] # "reencode")
               => /\ loc[r].remux = "failed" /\ loc[r].reenc = "none"
                  /\ \/ /\ pc'[r] = "open" /\ loc'[r].reenc = "ok"
                        /\ loc'[r].processed = ReencodePath(staged)
                        /\ fs'[ReencodePath(staged)] = File("reencode", r)
                     \/ /\ pc'[r] = "done"
                        /\ hist'[r].exit = "500 Failed to process video for fast start"
         /\ (pc'[r] = "reencode" /\ pc[r] # "reencode") => pc[r] = "remux"
         /\ (pc'[r] = "remux" /\ pc[r] # "remux") => pc[r] = "copy"
         /\ (pc[r] = "put" /\ pc'[r] = "update")
               => \E o \in s3' :
                    /\ o.key = loc[r].key
                    /\ o.body = fs[loc[r].processed]
                    /\ o.body # fs[staged]
                    /\ o.body = File(IF loc[r].remux = "ok" THEN "remux" ELSE "reencode", r)]_vars

\* an upload run whose remux failed and whose re-encode succeeded has put
\* the re-encoded file in the durable store
C8_Witness ==
    \E r \in Req :
        /\ pc[r] = "update" /\ loc[r].remux = "failed" /\ loc[r].reenc = "ok"
        /\ \E o \in s3 : o.key = loc[r].key /\ o.body = File("reencode", r)
        /\ fs[StagedPath(loc[r].temp)] = File("raw", r)

\* C9: the key prefix is landscape/ exactly when 1.7 < width/height < 1.8,
\* portrait/ exactly when 0.55 < width/height < 0.6, and other/ in every
\* other case: a zero width or height, no stream, the endpoints themselves.
InBand(p, loNum, loDen, hiNum, hiDen) ==
    /\ p.kind = "dims" /\ p.width > 0 /\ p.height > 0
    /\ loDen * p.width > loNum * p.height
    /\ hiDen * p.width < hiNum * p.height

C9_PrefixByRatio ==
    cout # "none" =>
        LET landscape == InBand(cin, 17, 10, 18, 10)
            portrait == InBand(cin, 55, 100, 6, 10)
        IN /\ (cout = "landscape/") <=> landscape
           /\ (cout = "portrait/") <=> portrait
           /\ (cout = "other/") <=> (~landscape /\ ~portrait)

\* the endpoint 17:10 (ratio exactly 1.7) has been classified, as other/
C9_Witness == cin = ProbeDims(17, 10) /\ cout = "other/"

ProbeUnusable(l) == l.probe \in {"failed", "indeterminate"}

C11_NoRetryOfPut ==
    [][\A r \in Req :
         /\ (pc[r] # "put" /\ pc'[r] = "put") => loc'[r].puts = 0
         /\ (pc[r] = "put" /\ pc'[r] # "put")
               => /\ loc[r].puts = 0
                  /\ \/ /\ pc'[r] = "update"
                        /\ loc'[r].puts = 1
                        /\ \E o \in s3' : o.bucket = Bucket /\ o.key = loc[r].key
                     \/ /\ pc'[r] = "done"
                        /\ hist'[r].exit = "500 Failed to upload video to S3"
                        /\ loc[r].updates = 0
                        /\ db' = db /\ s3' = s3
                        /\ fs'[StagedPath(loc[r].temp)] = NoFile
                        /\ fs'[loc[r].processed] = NoFile]_vars

\* a run whose PutObject failed has ended, leaving no temporary file and no
\* reference in the record
C11_Witness ==
    \E r \in Req :
        /\ pc[r] = "done" /\ IsUpload(r)
        /\ hist[r].exit = "500 Failed to upload video to S3"
        /\ fs = FS0
        /\ db[loc[r].vid] # NoVideo /\ db[loc[r].vid].url = Nil

\* C12: a signed URL is never persisted. The video reference of every record
\* is empty or a storage reference ("bucket,key", or the CloudFront URL in
\* the static revision); resolving a record for a response (upload, get,
\* list) writes nothing to the metadata store, and the signed URL appears
\* only in the response.
IsSignedURL(u) == u # Nil /\ u[Len(u)] = "?X-Amz-Signature"
IsStorageRef(u) ==
    /\ ~IsSignedURL(u)
    /\ IF variant = "signed"
       THEN LET parts == SplitN2(u) IN
            Len(parts) = 2 /\ parts[1] = Bucket /\ parts[2] # Nil
       ELSE /\ Len(u) > 3
            /\ SubSeq(u, 1, 3) = << "https://" >> \o CfDistribution \o << "/" >>
IsRead(r) == pc[r] = "idle" /\ pc'[r] = "done" /\ loc'[r].kind \in {"get", "list"}

C12_SignedURLNeverPersisted ==
    [][/\ \A v \in VideoIDs :
            (db'[v] # NoVideo /\ db'[v].url # Nil) => IsStorageRef(db'[v].url)
       /\ \A r \in Req :
            /\ (pc[r] = "resolve" /\ pc'[r] # "resolve") => db' = db
            /\ IsRead(r) => db' = db
            /\ (pc[r] = "update" /\ pc'[r] # "update" /\ db' # db)
                  => IsStorageRef(db'[loc[r].vid].url)
            /\ (variant = "signed" /\ (IsRead(r) \/ pc[r] = "resolve")
                   /\ hist'[r].exit = "200 OK")
                  => \A i \in 1..Len(hist'[r].resp) :
                        hist'[r].resp[i] = Nil \/ IsSignedURL(hist'[r].resp[i])]_vars

\* a get has answered with a signed URL for a record whose stored reference
\* is still the storage reference
C12_Witness ==
    \E r \in Req :
        /\ pc[r] = "done" /\ loc[r].kind = "get" /\ hist[r].exit = "200 OK"
        /\ IsSignedURL(hist[r].resp[1])
        /\ db[loc[r].vid] # NoVideo
        /\ IsStorageRef(db[loc[r].vid].url)
        /\ hist[r].resp[1] =
              generatePresignedURL(Bucket, SplitN2(db[loc[r].vid].url)[2])

\* the stages of an upload run and their place in an order
UploadSteps ==
    {"createtemp", "copy", "remux", "reencode", "open", "probe", "keygen", "put",
     "update", "resolve"}
OrderAsStated(p) ==
    CASE p \in {"createtemp", "copy"} -> 1
      [] p = "probe" -> 2
      [] p \in {"remux", "reencode", "open"} -> 3
      [] p \in {"keygen", "put", "update"} -> 4
      [] p = "resolve" -> 5
OrderInCode(p) ==
    CASE p \in {"createtemp", "copy"} -> 1
      [] p \in {"remux", "reencode", "open"} -> 2
      [] p = "probe" -> 3
      [] p \in {"keygen", "put", "update"} -> 4
      [] p = "resolve" -> 5

RefKey(u) ==
    IF variant = "signed"
    THEN LET parts == SplitN2(u) IN IF Len(parts) = 2 THEN parts[2] ELSE Nil
    ELSE SubSeq(u, 4, Len(u))

\* C14: in every upload run UpdateVideo is invoked at most once and only
\* after PutObject has returned success; a run that reports success has
\* invoked it exactly once, and it succeeded.
C14_UpdateOnceAfterPut ==
    [][\A r \in Req :
         /\ (pc[r] # "update" /\ pc'[r] = "update")
               => /\ pc[r] = "put"
                  /\ loc'[r].puts = 1 /\ loc'[r].updates = 0
                  /\ \E o \in s3' : o.bucket = Bucket /\ o.key = loc'[r].key
         /\ (pc[r] = "update" /\ pc'[r] # "update")
               => /\ loc[r].updates = 0
                  /\ \/ /\ pc'[r] = "done"
                        /\ hist'[r].exit = "500 Failed to update video record"
                        /\ db' = db
                     \/ /\ \/ pc'[r] = "resolve" /\ loc'[r].updates = 1
                           \/ /\ variant = "static"
                              /\ pc'[r] = "done" /\ hist'[r].exit = "200 OK"
                        /\ \/ db[loc[r].vid] = NoVideo /\ db' = db
                           \/ /\ db'[loc[r].vid] # NoVideo
                              /\ RefKey(db'[loc[r].vid].url) = loc[r].key
         /\ (loc'[r].kind = "upload" /\ pc'[r] # pc[r] /\ pc[r] # "update") => db' = db
         /\ (loc'[r].kind = "upload" /\ Ends(r) /\ hist'[r].exit = "200 OK")
               => \/ pc[r] = "resolve" /\ loc[r].puts = 1 /\ loc[r].updates = 1
                  \/ variant = "static" /\ pc[r] = "update" /\ loc[r].puts = 1]_vars

\* a run has reported success; the record holds the reference it wrote
C14_Witness ==
    \E r \in Req :
        /\ pc[r] = "done" /\ IsUpload(r) /\ hist[r].exit = "200 OK"
        /\ hist[r].committed
        /\ db[loc[r].vid] # NoVideo /\ db[loc[r].vid].url # Nil
        /\ \E o \in s3 : o.key = RefKey(db[loc[r].vid].url)

\* the staged path of a run and the two output paths of its normalizer
OwnPaths(n) ==
    { StagedPath(n), FastStartPath(StagedPath(n)), ReencodePath(StagedPath(n)) }
Staging(l) == l.kind = "upload" /\ l.temp # 0

\* C15: two upload runs in flight at the same time have distinct staged
\* paths and distinct normalizer output paths, and no step of a run reads,
\* writes or deletes a temporary file of another run in flight.
C15_RunsShareNoTempFile ==
    [][/\ \A r1, r2 \in Req :
            (r1 # r2 /\ Staging(loc'[r1]) /\ Staging(loc'[r2]))
               => OwnPaths(loc'[r1].temp) \cap OwnPaths(loc'[r2].temp) = {}
       /\ \A r \in Req :
            /\ pc'[r] # pc[r]
                  => \A p \in Paths :
                        fs'[p] # fs[p]
                           => /\ p \in OwnPaths(loc[r].temp) \cup OwnPaths(loc'[r].temp)
                              /\ \A r2 \in Req \ {r} :
                                    Staging(loc[r2]) => p \notin OwnPaths(loc[r2].temp)
            /\ (pc[r] \in {"remux", "reencode"} /\ pc'[r] # pc[r])
                  => fs[StagedPath(loc[r].temp)] = File("raw", r)
            /\ (pc[r] = "open" /\ pc'[r] = "probe")
                  => /\ loc'[r].body.src = r
                     /\ loc[r].processed \in OwnPaths(loc[r].temp)
            /\ (pc[r] = "probe" /\ pc'[r] # "probe")
                  => loc'[r].probed \in OwnPaths(loc[r].temp)]_vars

\* two runs are in flight, each with its staged file and its processed file
C15_Witness ==
    \E r1, r2 \in Req :
        /\ r1 # r2
        /\ Staging(loc[r1]) /\ Staging(loc[r2])
        /\ loc[r1].processed # Nil /\ loc[r2].processed # Nil
        /\ fs[loc[r1].processed].src = r1 /\ fs[loc[r2].processed].src = r2
        /\ fs[StagedPath(loc[r1].temp)].src = r1
        /\ fs[StagedPath(loc[r2].temp)].src = r2

\* C16: for every bucket name without a comma and every key an upload run
\* can produce, dbVideoToSignedVideo applied to the stored "bucket,key" asks
\* for a signed URL of exactly that bucket and that key; an empty reference
\* is returned unchanged without error; a non-empty reference without a
\* comma yields an error and no URL.
C16_StoredReferenceRoundTrip ==
    rout # RefNone =>
        /\ rout.rest
        /\ rin.kind = "ref" =>
              /\ IndexOf(rin.bucket, Comma, 1) = 0
              /\ IF rin.presignOK
                 THEN ~rout.err /\ rout.url = generatePresignedURL(rin.bucket, rin.key)
                 ELSE rout.err /\ rout.url = rin.stored
        /\ (rin.kind = "other" /\ rin.stored = Nil) => ~rout.err /\ rout.url = Nil
        /\ (rin.kind = "other" /\ rin.stored # Nil)
              => /\ IndexOf(rin.stored, Comma, 1) = 0
                 /\ rout.err /\ rout.url = rin.stored

\* a reference whose key holds commas in its extension has been resolved to
\* the signed URL of that key
C16_Witness ==
    /\ rout # RefNone /\ rin.kind = "ref"
    /\ IndexOf(rin.key, Comma, 1) > 0
    /\ ~rout.err
    /\ rout.url = generatePresignedURL(rin.bucket, rin.key)
====
